---- MODULE Spec2Model ----
(***************************************************************************)
(* Relevant Segment Extraction: the segment selector find_best_segments of *)
(* 09_rse.ipynb, as a state machine.  One behaviour is one call: the       *)
(* arguments are fixed by Init, every turn of the while loop is one step,  *)
(* and the step that leaves the loop also sorts and returns.               *)
(*                                                                         *)
(* Numbers.  chunk_values and min_segment_value are floats in the program. *)
(* The model writes a float as nom + err: nom is the value in fixed-point  *)
(* units (an integer), err is the rounding residue of the float sum, far   *)
(* smaller than one unit, so it only decides comparisons between equal     *)
(* noms.  Sums of integer-valued inputs are exact (err = 0).  For inputs   *)
(* that are decimal fractions the residue of each window sum depends on    *)
(* the float summation of the Python build, so it is an arbitrary choice   *)
(* made once per window (fp_err).                                          *)
(***************************************************************************)
EXTENDS Integers, Sequences, FiniteSets, TLC

\* Bounds of the model.
MaxN == 3      \* longest chunk_values list; lengths and caps range to MaxN
MaxVal == 1    \* chunk values and floors range over -1..MaxVal
MaxCalls == 3  \* calls of find_best_segments in a row (CallsSpec)
MaxStore == 2  \* entries of the vector store (StoreSpec)
MaxText == 4   \* characters of the document text (TextSpec)

VARIABLES
  chunk_values,           \* argument: nominal value of each chunk
  max_segment_length,     \* argument
  total_max_length,       \* argument
  min_segment_value,      \* argument: nominal floor
  fp_err,                 \* rounding residue of sum(chunk_values[start:end]), per window
  best_segments,          \* local: accepted (start, end) pairs
  segment_scores,         \* local: recorded scores
  total_included_chunks,  \* local: covered length
  rounds,                 \* history: the (segment, score) pairs in the order accepted
  pc,                     \* "while" inside the loop, "done" after return
  log,                    \* history: arguments and results of the calls that returned before
  documents,              \* SimpleVectorStore.documents
  vectors,                \* SimpleVectorStore.vectors
  metadata,               \* SimpleVectorStore.metadata
  chunk_out,              \* the last call of calculate_chunk_values: arguments and outcome
  items,                  \* history: the (document, vector, metadata) items add_documents took
  uneven,                 \* history: some add_documents call got lists of unequal length
  search_out,             \* the last call of search: arguments and results
  text,                   \* chunk_text argument: the document text, a list of characters
  chunk_size,             \* chunk_text argument
  overlap,                \* chunk_text argument
  chunks,                 \* the list chunk_text returned
  ranges,                 \* reconstruct_segments argument best_segments
  segments,               \* the list reconstruct_segments returned
  context,                \* the pieces format_segments_for_context joined
  phase                   \* how far the text has got: "text", "chunked", "ValueError",
                          \* "reconstructed", "formatted"

\* The document text on its way to the prompt.
render == <<text, chunk_size, overlap, chunks, ranges, segments, context, phase>>

\* The vector store and the call made on it.
store == <<documents, vectors, metadata, chunk_out, items, uneven, search_out>>

vars == <<chunk_values, max_segment_length, total_max_length, min_segment_value,
          fp_err, best_segments, segment_scores, total_included_chunks, rounds, pc,
          log, store, render>>

args == <<chunk_values, max_segment_length, total_max_length, min_segment_value, fp_err>>

----------------------------------------------------------------------------
\* Helpers

Min(a, b) == IF a < b THEN a ELSE b

\* best_segment = None
None == <<>>

\* A float: nominal units plus rounding residue.
Num(n, e) == [nom |-> n, err |-> e]

GreaterOrEqual(a, b) == a.nom > b.nom \/ (a.nom = b.nom /\ a.err >= b.err)

FirstAbove(a, b) ==
  /\ b = [nom |-> min_segment_value, err |-> 0]
  /\ (a.nom > b.nom \/ (a.nom = b.nom /\ a.err > b.err))

\* segment_value > best_score, on floats
Greater(a, b) == a.nom > b.nom \/ (a.nom = b.nom /\ a.err > b.err)

LenPlusOne == Len(chunk_values) + 1

\* len(chunk_values), as the loop ranges read it
N == Len(chunk_values)

\* Exact sum of the slice chunk_values[start:end]; slicing clips end to N.
RECURSIVE SliceSum(_, _)
SliceSum(start, end) ==
  IF start >= Min(end, Len(chunk_values)) THEN 0
  ELSE chunk_values[start + 1] + SliceSum(start + 1, end)

\* Rounding residue of the float sum over the window.
Residue(start, end) ==
  IF <<start, end>> \in DOMAIN fp_err THEN fp_err[<<start, end>>] ELSE 0

\* segment_value = sum(chunk_values[start:end])
SegmentValue(start, end) == Num(SliceSum(start, end), Residue(start, end))

FloorZero == Num(0, 0)

\* best_score = min_segment_value
Floor == Num(min_segment_value, 0)

StartTakenStrict(segs, start) ==
  \E i \in 1..Len(segs) : start > segs[i][1] /\ start < segs[i][2]

\* any(start >= s[0] and start < s[1] for s in best_segments)
StartTaken(segs, start) ==
  \E i \in 1..Len(segs) : start >= segs[i][1] /\ start < segs[i][2]

EndTakenInclusive(segs, end) ==
  \E i \in 1..Len(segs) : end >= segs[i][1] /\ end <= segs[i][2]

\* any(end > s[0] and end <= s[1] for s in best_segments)
EndTaken(segs, end) ==
  \E i \in 1..Len(segs) : end > segs[i][1] /\ end <= segs[i][2]

MaxLengthNoClip(start) == max_segment_length

MaxLengthShort(start) == Min(max_segment_length, N - start) - 1

\* The last length tried from start: range(1, min(max_segment_length, N - start) + 1)
MaxLength(start) == Min(max_segment_length, N - start)

\* The inner loop from `length` on; best = [score, segment] so far.
RECURSIVE ScanLengths(_, _, _, _)
ScanLengths(segs, start, length, best) ==
  IF length > MaxLength(start) THEN best
  ELSE LET end == start + length
           value == SegmentValue(start, end)
           next == IF EndTaken(segs, end) THEN best
                   ELSE IF Greater(value, best.score)
                        THEN [score |-> value, segment |-> <<start, end>>]
                        ELSE best
       IN ScanLengths(segs, start, length + 1, next)

\* The outer loop from `start` on.
RECURSIVE ScanStarts(_, _, _)
ScanStarts(segs, start, best) ==
  IF start >= N THEN best
  ELSE ScanStarts(segs, start + 1,
                  IF StartTaken(segs, start) THEN best
                  ELSE ScanLengths(segs, start, 1, best))

\* (best_score, best_segment) after the scan of one round.
BestOfRound(segs) == ScanStarts(segs, 0, [score |-> Floor, segment |-> None])

\* Stable insertion of x into a list sorted by start (key = x[0]).
RECURSIVE InsertByStart(_, _)
InsertByStart(sorted, x) ==
  IF sorted = <<>> THEN <<x>>
  ELSE IF x[1] < Head(sorted)[1] THEN <<x>> \o sorted
       ELSE <<Head(sorted)>> \o InsertByStart(Tail(sorted), x)

\* sorted(segs, key=lambda x: x[0])
RECURSIVE SortedByStart(_)
SortedByStart(segs) ==
  IF segs = <<>> THEN <<>>
  ELSE InsertByStart(SortedByStart(SubSeq(segs, 1, Len(segs) - 1)), segs[Len(segs)])

ReturnedUnsorted(segs) == segs

\* The segment list handed back: best_segments = sorted(...); return best_segments, ...
Returned(segs) == SortedByStart(segs)

\* The scores re-paired with the sorted segments: entry i is the score recorded
\* for the segment at position i of the sorted list.
ReturnedScoresPaired(scores) ==
  [i \in 1..Len(scores) |->
     LET seg == SortedByStart(best_segments)[i]
         k == CHOOSE j \in 1..Len(scores) : best_segments[j] = seg
     IN scores[k]]

\* The score list handed back: return best_segments, segment_scores
ReturnedScores(scores) == scores

LoopCondInclusive == total_included_chunks <= total_max_length

\* while total_included_chunks < total_max_length
LoopCond == total_included_chunks < total_max_length

AcceptInFront(segs, seg) == <<seg>> \o segs

\* best_segments.append(best_segment)
Accept(segs, seg) == Append(segs, seg)

CoveredStale(total, seg) == total

\* total_included_chunks += best_segment[1] - best_segment[0]
Covered(total, seg) == total + (seg[2] - seg[1])

----------------------------------------------------------------------------
\* Inputs

Vals == -1..MaxVal
Floors == -1..(MaxVal + 1)
Caps == -1..MaxN
ValueLists == UNION {[1..n -> Vals] : n \in 0..MaxN}

\* Integer-valued inputs: every sum is exact.
NoResidue == [w \in {} |-> 0]
IntInputs ==
  {<<v, msl, tml, f, NoResidue>> :
     v \in ValueLists, msl \in Caps, tml \in Caps, f \in Floors}

\* The spec's scenario [0.1, 0.1, 0.9, 0.9, 0.1], 3, 5, 0.15 in units of 0.01.
\* Its values are no binary fractions: the sum of a window of two or three of
\* them carries a residue.
ScenarioValues == <<10, 10, 90, 90, 10>>
ScenarioWindows == {<<s, s + l>> : s \in 0..4, l \in 2..3} \cap ((0..4) \X (0..5))
ScenarioInputs ==
  {<<ScenarioValues, 3, 5, 15, e>> : e \in [ScenarioWindows -> -1..1]}

\* The spec's scenario [5.0], 1, 1, 0 in units of 1.
SingleChunkInputs == {<< <<5>>, 1, 1, 0, NoResidue >>}

\* Four chunks of value 1, windows of up to three chunks, floor 1.
FourOnesInputs == {<< <<1, 1, 1, 1>>, 3, 4, 1, NoResidue >>}

Inputs == IntInputs \cup ScenarioInputs \cup SingleChunkInputs \cup FourOnesInputs

----------------------------------------------------------------------------
\* The vector store

\* The variables of find_best_segments and of its callers.
selector == <<chunk_values, max_segment_length, total_max_length, min_segment_value,
              fp_err, best_segments, segment_scores, total_included_chunks, rounds,
              pc, log>>

\* A vector that is None; a metadata dict that is {} (no "chunk_index" key).
NoVector == <<>>
NoMeta == [k \in {} |-> 0]

\* No call of calculate_chunk_values was made on the store as it is now.
NoCall == [status |-> "none"]

\* No call of search was made on the store as it is now.
NoSearch == [called |-> FALSE]

\* top_k: a number of results to return
TopKs == 0..(MaxStore + 1)

\* Document texts.
Docs == {"a", "b"}

\* Embedding vectors: two coordinates, whole-number norms, none zero; their
\* cosines are whole hundredths and differ whenever the vectors differ.
Vectors == {<<1, 0>>, <<3, 4>>}
Queries == {<<1, 0>>, <<3, 4>>}

\* metadata dicts as process_document builds them
ChunkIndices == {0, 1}
Metas == {[chunk_index |-> i] : i \in ChunkIndices}

\* irrelevant_chunk_penalty in hundredths: the default 0.2, and 0
DefaultPenalty == 20
Penalties == {0, DefaultPenalty}

\* Lengths of the lists passed to add_documents.
ArgLengths == 0..2
ListsOf(S) == UNION {[1..n -> S] : n \in ArgLengths}

\* An optional list argument: left out (None) or given.
NotGiven == [given |-> FALSE]
OptionalListsOf(S) == {NotGiven} \cup {[given |-> TRUE, list |-> l] : l \in ListsOf(S)}

\* vectors = [None] * len(documents)
DefaultVectors(docs) == [i \in 1..Len(docs) |-> NoVector]

\* metadata = [{} for _ in range(len(documents))]
DefaultMetadata(docs) == [i \in 1..Len(docs) |-> NoMeta]

\* zip stops at the shortest of its arguments.
ZipLength(docs, vecs, metas) == Min(Len(docs), Min(Len(vecs), Len(metas)))

Whole(seq, n) == seq

\* The items zip yields: the first n of a list.
Prefix(seq, n) == SubSeq(seq, 1, n)

\* np.dot, np.linalg.norm and the cosine similarity, in hundredths.
Dot(u, v) == u[1] * v[1] + u[2] * v[2]
Norm(v) == CHOOSE n \in 0..Dot(v, v) : n * n = Dot(v, v)
Similarity(q, v) == (100 * Dot(q, v)) \div (Norm(q) * Norm(v))

\* The indices whose vector is not None.
Scored == {i \in 1..Len(vectors) : vectors[i] # NoVector}

\* Index j sorts before index i: list.sort(reverse=True) orders by score,
\* descending, and keeps items of equal score in their original order.
SortsBeforeAscending(q, j, i) ==
  \/ Similarity(q, vectors[j]) < Similarity(q, vectors[i])
  \/ Similarity(q, vectors[j]) = Similarity(q, vectors[i]) /\ j < i

SortsBefore(q, j, i) ==
  \/ Similarity(q, vectors[j]) > Similarity(q, vectors[i])
  \/ Similarity(q, vectors[j]) = Similarity(q, vectors[i]) /\ j < i

\* similarities after the sort: the scored indices, best first.
Similarities(q) ==
  [k \in 1..Cardinality(Scored) |->
     CHOOSE i \in Scored : Cardinality({j \in Scored : SortsBefore(q, j, i)}) = k - 1]

\* seq[:top_k]: the first top_k items, or all but the last -top_k when top_k < 0.
SliceTo(seq, top_k) ==
  IF top_k >= 0 THEN Prefix(seq, Min(top_k, Len(seq)))
  ELSE Prefix(seq, IF Len(seq) + top_k > 0 THEN Len(seq) + top_k ELSE 0)

\* SimpleVectorStore.search
Search(q, top_k) ==
  IF vectors = <<>> \/ documents = <<>> THEN <<>>
  ELSE LET top == SliceTo(Similarities(q), top_k)
       IN [k \in 1..Len(top) |->
             [document |-> documents[top[k]],
              score |-> Similarity(q, vectors[top[k]]),
              metadata |-> metadata[top[k]]]]

\* result["metadata"]["chunk_index"] exists
HasChunkIndex(result) == "chunk_index" \in DOMAIN result.metadata

\* {result["metadata"]["chunk_index"]: result["score"] for result in results}:
\* of several results with one key the last one stays.
RelevanceScores(results) ==
  [i \in {results[k].metadata.chunk_index : k \in 1..Len(results)} |->
     LET last == CHOOSE k \in 1..Len(results) :
                   /\ results[k].metadata.chunk_index = i
                   /\ \A l \in (k + 1)..Len(results) : results[l].metadata.chunk_index # i
     IN results[last].score]

\* relevance_scores.get(i, 0.0)
Get(scores, i) == IF i \in DOMAIN scores THEN scores[i] ELSE 0

\* The list calculate_chunk_values builds; entry i + 1 is the value of chunk i.
ChunkValues(results, num_chunks, penalty) ==
  [i \in 1..num_chunks |-> Get(RelevanceScores(results), i - 1) - penalty]

\* SimpleVectorStore(): three empty lists.
StoreInit ==
  /\ documents = <<>>
  /\ vectors = <<>>
  /\ metadata = <<>>
  /\ chunk_out = NoCall
  /\ items = <<>>
  /\ uneven = FALSE
  /\ search_out = NoSearch

\* No call of find_best_segments is under way.
Idle ==
  /\ chunk_values = <<>>
  /\ max_segment_length = 0
  /\ total_max_length = 0
  /\ min_segment_value = 0
  /\ fp_err = NoResidue
  /\ best_segments = <<>>
  /\ segment_scores = <<>>
  /\ total_included_chunks = 0
  /\ rounds = <<>>
  /\ pc = "idle"
  /\ log = <<>>

----------------------------------------------------------------------------
\* Chunking the text and rendering the segments

\* The characters of a text.
Chars == {"x", "y"}
Texts == UNION {[1..n -> Chars] : n \in 0..MaxText}
ChunkSizes == 1..3
Overlaps == 0..1

\* No document is being processed.
NoText ==
  /\ text = <<>>
  /\ chunk_size = 1
  /\ overlap = 0
  /\ chunks = <<>>
  /\ ranges = <<>>
  /\ segments = <<>>
  /\ context = <<>>
  /\ phase = "none"

\* range(0, len(text), step) for step > 0, as a list.
RangeFromZero(stop, step) == [k \in 1..((stop + step - 1) \div step) |-> (k - 1) * step]

ChunkAtShort(i) == SubSeq(text, i + 1, Min(i + chunk_size - 1, Len(text)))

\* text[i:i + chunk_size]
ChunkAt(i) == SubSeq(text, i + 1, Min(i + chunk_size, Len(text)))

\* The loop of chunk_text: one chunk per i, kept when it is not empty.
ChunkList(step) ==
  SelectSeq([k \in 1..Len(RangeFromZero(Len(text), step)) |->
               ChunkAt(RangeFromZero(Len(text), step)[k])],
            LAMBDA chunk : chunk # <<>>)

\* chunks[start:end] for 0 <= start
ChunkSlice(start, end) == SubSeq(chunks, start + 1, Min(end, Len(chunks)))

RECURSIVE JoinedBare(_)
JoinedBare(texts) ==
  IF texts = <<>> THEN <<>> ELSE Head(texts) \o JoinedBare(Tail(texts))

\* " ".join(texts)
RECURSIVE JoinedWithSpace(_)
JoinedWithSpace(texts) ==
  IF texts = <<>> THEN <<>>
  ELSE IF Len(texts) = 1 THEN Head(texts)
       ELSE Head(texts) \o <<" ">> \o JoinedWithSpace(Tail(texts))

\* reconstruct_segments(chunks, best_segments)
Reconstructed(segs) ==
  [i \in 1..Len(segs) |->
     [text |-> JoinedWithSpace(ChunkSlice(segs[i][1], segs[i][2])),
      segment_range |-> segs[i]]]

\* f"SEGMENT {i+1} (Chunks {range[0]}-{range[1]-1}):" for the entry at list
\* position i (counted from 0), kept as its three numbers.
Header(i, segment) ==
  [piece |-> "header", number |-> i + 1,
   first |-> segment.segment_range[1], last |-> segment.segment_range[2] - 1]

\* The three pieces appended for the entry at position i: header, text, rule.
Pieces(i, segment) ==
  << Header(i, segment),
     [piece |-> "text", text |-> segment.text],
     [piece |-> "rule", dashes |-> 80] >>

\* context after the loop of format_segments_for_context.
RECURSIVE ContextList(_, _)
ContextList(segs, i) ==
  IF i >= Len(segs) THEN <<>>
  ELSE Pieces(i, segs[i + 1]) \o ContextList(segs, i + 1)

\* "\n\n".join(context): the pieces with a blank line between neighbours.
RECURSIVE JoinedWithBlankLine(_)
JoinedWithBlankLine(pieces) ==
  IF pieces = <<>> THEN <<>>
  ELSE IF Len(pieces) = 1 THEN pieces
       ELSE <<Head(pieces), [piece |-> "blank line"]>> \o JoinedWithBlankLine(Tail(pieces))

\* The (start, end) lists handed to reconstruct_segments: up to two ranges
\* inside the n chunks, in any order.
RangesIn(n) == {r \in (0..n) \X (0..n) : r[1] < r[2]}
RangeLists(n) == UNION {[1..k -> RangesIn(n)] : k \in 0..2}

TextSpecInit ==
  /\ Idle
  /\ StoreInit
  /\ text \in Texts
  /\ chunk_size \in ChunkSizes
  /\ overlap \in Overlaps
  /\ chunks = <<>>
  /\ ranges = <<>>
  /\ segments = <<>>
  /\ context = <<>>
  /\ phase = "text"

\* chunk_text(text, chunk_size, overlap); range() raises ValueError on step 0.
ChunkText ==
  /\ phase = "text"
  /\ IF chunk_size - overlap = 0
     THEN chunks' = <<>> /\ phase' = "ValueError"
     ELSE chunks' = ChunkList(chunk_size - overlap) /\ phase' = "chunked"
  /\ UNCHANGED <<selector, store, text, chunk_size, overlap, ranges, segments, context>>

\* reconstruct_segments(chunks, best_segments)
ReconstructSegments ==
  /\ phase = "chunked"
  /\ \E segs \in RangeLists(Len(chunks)) :
       /\ ranges' = segs
       /\ segments' = Reconstructed(segs)
  /\ phase' = "reconstructed"
  /\ UNCHANGED <<selector, store, text, chunk_size, overlap, chunks, context>>

\* format_segments_for_context(segments)
FormatSegments ==
  /\ phase = "reconstructed"
  /\ context' = JoinedWithBlankLine(ContextList(segments, 0))
  /\ phase' = "formatted"
  /\ UNCHANGED <<selector, store, text, chunk_size, overlap, chunks, ranges, segments>>

TextNext == ChunkText \/ ReconstructSegments \/ FormatSegments

TextSpec == TextSpecInit /\ [][TextNext]_vars

----------------------------------------------------------------------------
\* The call

Init ==
  /\ \E in \in Inputs :
       /\ chunk_values = in[1]
       /\ max_segment_length = in[2]
       /\ total_max_length = in[3]
       /\ min_segment_value = in[4]
       /\ fp_err = in[5]
  /\ best_segments = <<>>
  /\ segment_scores = <<>>
  /\ total_included_chunks = 0
  /\ rounds = <<>>
  /\ pc = "while"
  /\ log = <<>>
  /\ StoreInit
  /\ NoText

\* Leaving the loop: sort by start and return.
Return ==
  /\ best_segments' = Returned(best_segments)
  /\ segment_scores' = ReturnedScores(segment_scores)
  /\ pc' = "done"
  /\ UNCHANGED <<args, total_included_chunks, rounds, log, store, render>>

\* A turn of the loop that finds a segment.
Round ==
  /\ pc = "while"
  /\ LoopCond
  /\ \E best \in {BestOfRound(best_segments)} :
       /\ best.segment # None
       /\ best_segments' = Accept(best_segments, best.segment)
       /\ segment_scores' = Append(segment_scores, best.score)
       /\ total_included_chunks' = Covered(total_included_chunks, best.segment)
       /\ rounds' = Append(rounds, <<best.segment, best.score>>)
  /\ UNCHANGED <<args, pc, log, store, render>>

\* A turn of the loop that finds none: break.
Break ==
  /\ pc = "while"
  /\ LoopCond
  /\ BestOfRound(best_segments).segment = None
  /\ Return

\* The loop condition fails.
Exit ==
  /\ pc = "while"
  /\ ~LoopCond
  /\ Return

Next == Round \/ Break \/ Exit

Spec == Init /\ [][Next]_vars

----------------------------------------------------------------------------
\* Filling and scoring the store

StoreSpecInit == Idle /\ StoreInit /\ NoText

\* SimpleVectorStore.add_documents(documents, vectors, metadata).  The store is
\* filled first and scored once: the outcome kept in chunk_out is that of the
\* store as it stands.
AddDocuments ==
  /\ chunk_out = NoCall
  /\ search_out = NoSearch
  /\ \E docs \in ListsOf(Docs), vecs \in OptionalListsOf(Vectors),
        metas \in OptionalListsOf(Metas) :
       \E v \in {IF vecs.given THEN vecs.list ELSE DefaultVectors(docs)},
          m \in {IF metas.given THEN metas.list ELSE DefaultMetadata(docs)} :
         \E n \in {ZipLength(docs, v, m)} :
           /\ Len(documents) + n <= MaxStore
           /\ documents' = documents \o Prefix(docs, n)
           /\ vectors' = vectors \o Prefix(v, n)
           /\ metadata' = metadata \o Prefix(m, n)
           /\ items' = items \o [k \in 1..n |-> <<docs[k], v[k], m[k]>>]
           /\ uneven' = (uneven \/ Len(docs) # Len(v) \/ Len(docs) # Len(m))
  /\ UNCHANGED <<selector, chunk_out, search_out, render>>

\* calculate_chunk_values(query, chunks, vector_store, irrelevant_chunk_penalty)
\* with len(chunks) = num_chunks and q the embedding of the query.
CalculateChunkValues ==
  /\ chunk_out = NoCall
  /\ \E q \in Queries, num_chunks \in 0..MaxStore, penalty \in Penalties :
       \E results \in {Search(q, num_chunks)} :
         chunk_out' =
           IF \A k \in 1..Len(results) : HasChunkIndex(results[k])
           THEN [status |-> "returned", query |-> q, num_chunks |-> num_chunks,
                 penalty |-> penalty, results |-> results,
                 values |-> ChunkValues(results, num_chunks, penalty)]
           ELSE [status |-> "KeyError", query |-> q, num_chunks |-> num_chunks,
                 penalty |-> penalty, results |-> results]
  /\ UNCHANGED <<selector, documents, vectors, metadata, items, uneven, search_out, render>>

\* SimpleVectorStore.search(query_vector, top_k)
SearchStore ==
  /\ search_out = NoSearch
  /\ \E q \in Queries, top_k \in TopKs :
       search_out' = [called |-> TRUE, query |-> q, top_k |-> top_k,
                      results |-> Search(q, top_k)]
  /\ UNCHANGED <<selector, documents, vectors, metadata, chunk_out, items, uneven, render>>

StoreNext == AddDocuments \/ CalculateChunkValues

StoreSpec == StoreSpecInit /\ [][StoreNext]_vars

SearchNext == AddDocuments \/ SearchStore

SearchSpec == StoreSpecInit /\ [][SearchNext]_vars

----------------------------------------------------------------------------
\* Several calls in a row

CallValues == {<<-1, 1, 0>>, <<1, 1, 1>>, <<0, -1, 1>>}
CallInputs ==
  {<<v, 3, tml, f, NoResidue>> : v \in CallValues, tml \in {1, 3}, f \in {-1, 0}}

StaleSegments == best_segments

\* best_segments = []
FreshSegments == <<>>

\* segment_scores = []
FreshScores == <<>>

\* total_included_chunks = 0
FreshTotal == 0

CallsInit ==
  /\ \E in \in CallInputs :
       /\ chunk_values = in[1]
       /\ max_segment_length = in[2]
       /\ total_max_length = in[3]
       /\ min_segment_value = in[4]
       /\ fp_err = in[5]
  /\ best_segments = <<>>
  /\ segment_scores = <<>>
  /\ total_included_chunks = 0
  /\ rounds = <<>>
  /\ pc = "while"
  /\ log = <<>>
  /\ StoreInit
  /\ NoText

\* The caller calls find_best_segments again: the function's locals are set up
\* anew; nothing else the function reads survives the previous call.
Call ==
  /\ pc = "done"
  /\ Len(log) + 1 < MaxCalls
  /\ log' = Append(log, [in |-> args, segments |-> best_segments,
                         scores |-> segment_scores])
  /\ \E in \in CallInputs :
       /\ chunk_values' = in[1]
       /\ max_segment_length' = in[2]
       /\ total_max_length' = in[3]
       /\ min_segment_value' = in[4]
       /\ fp_err' = in[5]
  /\ best_segments' = FreshSegments
  /\ segment_scores' = FreshScores
  /\ total_included_chunks' = FreshTotal
  /\ rounds' = <<>>
  /\ pc' = "while"
  /\ UNCHANGED <<store, render>>

CallsNext == Round \/ Break \/ Exit \/ Call

CallsSpec == CallsInit /\ [][CallsNext]_vars

----------------------------------------------------------------------------
\* Vocabulary of the properties

Max(a, b) == IF a > b THEN a ELSE b

Done == pc = "done"

\* The floor and the order on floats, as the properties read them.
FloorValue == [nom |-> min_segment_value, err |-> 0]
Exceeds(a, b) == a.nom > b.nom \/ (a.nom = b.nom /\ a.err > b.err)

\* The windows the first round considers: length 1..max_segment_length inside 0..N.
Windows == {w \in (0..N) \X (0..N) : w[1] < w[2] /\ w[2] - w[1] <= max_segment_length}

Disjoint(a, b) == a[2] <= b[1] \/ b[2] <= a[1]

RECURSIVE TotalLength(_)
TotalLength(segs) ==
  IF segs = <<>> THEN 0 ELSE (Head(segs)[2] - Head(segs)[1]) + TotalLength(Tail(segs))

IsScenario == chunk_values = ScenarioValues

----------------------------------------------------------------------------
\* C1: the returned segments are pairwise non-overlapping: no chunk index lies
\* in [start, end) of two different returned segments.
C1_NonOverlapping ==
  Done => \A i, j \in 1..Len(best_segments) :
            i # j => Disjoint(best_segments[i], best_segments[j])

\* C2: the sum of (end - start) over the returned segments never exceeds
\* total_max_length (stated for the caps the contract admits, total_max_length >= 0,
\* so that a violation is an overshoot and not the empty result under a negative cap).
C2_TotalWithinBudget ==
  Done /\ total_max_length >= 0 => TotalLength(best_segments) <= total_max_length

\* C3: every returned segment (start, end) satisfies 0 <= start < end <= N and
\* end - start <= max_segment_length.
C3_SegmentsWellFormed ==
  \A i \in 1..Len(best_segments) :
    LET start == best_segments[i][1]
        end == best_segments[i][2]
    IN 0 <= start /\ start < end /\ end <= N /\ end - start <= max_segment_length

\* A call returned a segment of the full permitted length and one that ends at N.
C3_Witness ==
  /\ Done
  /\ \E i \in 1..Len(best_segments) :
       best_segments[i][2] - best_segments[i][1] = max_segment_length
  /\ \E j \in 1..Len(best_segments) :
       best_segments[j][2] = N /\ best_segments[j][2] - best_segments[j][1] < max_segment_length

\* C4: every recorded score is the sum of chunk_values[start:end] of the segment
\* accepted in the same round and is strictly greater than min_segment_value; a
\* candidate whose sum equals min_segment_value is never accepted.
C4_ScoresAreSumsAboveFloor ==
  /\ Len(segment_scores) = Len(rounds)
  /\ \A k \in 1..Len(rounds) :
       LET seg == rounds[k][1] IN
         /\ segment_scores[k] = SegmentValue(seg[1], seg[2])
         /\ Exceeds(segment_scores[k], FloorValue)
         /\ SegmentValue(seg[1], seg[2]) # FloorValue

\* A call accepted a segment and left alone, to the end, a window that was
\* admissible in every round and whose sum equals the floor.
C4_Witness ==
  /\ Done
  /\ Len(rounds) >= 1
  /\ total_included_chunks < total_max_length
  /\ \E w \in Windows :
       /\ SegmentValue(w[1], w[2]) = FloorValue
       /\ ~StartTaken(best_segments, w[1])
       /\ ~EndTaken(best_segments, w[2])

\* C5: the returned segment list is sorted by start strictly ascending: no two
\* returned segments share a start and none appears twice.
C5_SortedByStart ==
  Done => \A i, j \in 1..Len(best_segments) :
            i < j => best_segments[i][1] < best_segments[j][1]

\* A call returned two or more segments that it had found in another order.
C5_Witness ==
  /\ Done
  /\ Len(best_segments) >= 2
  /\ rounds[1][1] # best_segments[1]

\* C6 (as claimed): on the scenario the first round accepts (2,4) with score 1.8
\* and the second round accepts (0,2) with score 0.2, in that order.
C6_ScenarioTrace ==
  IsScenario /\ Done =>
    /\ Len(rounds) >= 2
    /\ rounds[1][1] = <<2, 4>> /\ rounds[1][2].nom = 180
    /\ rounds[2][1] = <<0, 2>> /\ rounds[2][2].nom = 20

\* C6 (amended): on the scenario the first round accepts a three-chunk window
\* that holds both 0.9 chunks, with score 1.9 up to rounding: (2,5) when the
\* float sum over (2,5) is greater than the float sum over (1,4), and then the
\* second round accepts (0,2) with score 0.2 and the call returns
\* [(0,2), (2,5)]; otherwise (1,4), and then no round accepts anything more.
\* (2,4) is never accepted.
C6_ScenarioGreedy ==
  IsScenario /\ Done =>
    /\ Len(rounds) >= 1
    /\ rounds[1][2].nom = 190
    /\ \A k \in 1..Len(rounds) : rounds[k][1] # <<2, 4>>
    /\ IF Exceeds(SegmentValue(2, 5), SegmentValue(1, 4))
       THEN /\ Len(rounds) = 2
            /\ rounds[1][1] = <<2, 5>>
            /\ rounds[2][1] = <<0, 2>> /\ rounds[2][2].nom = 20
            /\ best_segments = <<<<0, 2>>, <<2, 5>>>>
       ELSE /\ Len(rounds) = 1
            /\ rounds[1][1] = <<1, 4>>
            /\ best_segments = <<<<1, 4>>>>

\* The scenario returned after two accepting rounds.
C6_Witness == IsScenario /\ Done /\ Len(rounds) = 2

\* C7 (as claimed): a call with max_segment_length <= 0 or total_max_length <= 0
\* does not return an ordinary result.
C7_InvalidArgumentFails ==
  (max_segment_length <= 0 \/ total_max_length <= 0) => ~Done

\* C7 (amended): a call with max_segment_length <= 0 or total_max_length <= 0
\* accepts nothing and returns the ordinary empty result ([], []).
C7_NonPositiveCapsReturnEmpty ==
  (max_segment_length <= 0 \/ total_max_length <= 0) =>
    best_segments = <<>> /\ segment_scores = <<>> /\ rounds = <<>>

\* A call with total_max_length <= 0 returned although a chunk alone exceeds the floor.
C7_Witness ==
  /\ Done
  /\ total_max_length <= 0 /\ max_segment_length >= 1
  /\ \E i \in 1..N : chunk_values[i] > min_segment_value

\* C8 (as claimed): the number of accepted rounds is at most total_max_length.
C8_RoundsWithinTotal ==
  Done => Len(rounds) <= total_max_length

\* C8 (amended): the call terminates on every input; every turn of the loop either
\* adds at least one chunk to the covered length or ends the loop, so the number
\* of accepted rounds is at most max(0, total_max_length).
\* Stated as a variant: a step that does not return happens with
\* total_included_chunks below total_max_length and raises it by at least one
\* (the guards of Round, Break and Exit cover every state inside the loop).
C8_Terminates ==
  /\ [](Len(rounds) <= Max(0, total_max_length))
  /\ [][\/ Done'
        \/ /\ total_included_chunks < total_max_length
           /\ total_included_chunks' >= total_included_chunks + 1
           /\ Len(rounds') = Len(rounds) + 1]_vars

\* A call that accepted as many rounds as total_max_length allows, more than one.
C8_Witness ==
  Done /\ Len(rounds) = total_max_length /\ Len(rounds) >= 2

\* No window of length 1..max_segment_length has a sum above the floor.
NoWindowAboveFloor ==
  \A w \in Windows : ~Exceeds(SegmentValue(w[1], w[2]), FloorValue)

\* C9: if every contiguous window of length 1..max_segment_length has a sum
\* <= min_segment_value, the call returns an empty segment list and an empty
\* score list.
C9_NoQualifyingSegment ==
  NoWindowAboveFloor =>
    /\ rounds = <<>>
    /\ (Done => best_segments = <<>> /\ segment_scores = <<>>)

\* The loop ran, found nothing and returned, with a window whose sum equals the floor.
C9_Witness ==
  /\ Done /\ NoWindowAboveFloor
  /\ total_max_length >= 1
  /\ \E w \in Windows : w[2] - w[1] >= 2 /\ SegmentValue(w[1], w[2]) = FloorValue

AllChunksBelowFloor == \A i \in 1..N : chunk_values[i] < min_segment_value

\* C10 (as claimed): if every individual chunk value is below min_segment_value,
\* the call returns an empty segment list.
C10_AllBelowFloorEmpty ==
  AllChunksBelowFloor /\ Done => best_segments = <<>>

\* C10 (amended): if every individual chunk value is below min_segment_value and
\* no window of several chunks can add up above it (max_segment_length <= 1, or
\* no chunk value is positive), the call returns an empty segment list.
C10_AllBelowFloorNoGain ==
  /\ AllChunksBelowFloor
  /\ (max_segment_length <= 1 \/ \A i \in 1..N : chunk_values[i] <= 0)
  /\ Done
  => best_segments = <<>>

\* The loop ran over several chunks, all below the floor, and returned.
C10_Witness ==
  /\ Done /\ AllChunksBelowFloor
  /\ N >= 2 /\ max_segment_length >= 2 /\ total_max_length >= 1
  /\ \A i \in 1..N : chunk_values[i] <= 0
  /\ best_segments = <<>>

\* C11: if chunk_values is empty the call accepts nothing and returns an empty
\* segment list and an empty score list, for any positive caps.
C11_EmptyInput ==
  Len(chunk_values) = 0 =>
    /\ rounds = <<>>
    /\ (Done => best_segments = <<>> /\ segment_scores = <<>>)

\* A call on the empty list with positive caps and a floor below zero returned.
C11_Witness ==
  /\ Done /\ Len(chunk_values) = 0
  /\ max_segment_length >= 1 /\ total_max_length >= 1 /\ min_segment_value < 0

\* Some window of length 1..max_segment_length has a sum above the floor.
SomeWindowAboveFloor ==
  \E w \in Windows : Exceeds(SegmentValue(w[1], w[2]), FloorValue)

\* C12: with total_max_length >= 1 and max_segment_length >= 1, if some single
\* chunk value (or any admissible window sum) is strictly greater than
\* min_segment_value, the call returns a non-empty segment list; every window of
\* length 1 is among the candidates of the first round, so the first recorded
\* score is no smaller than any single chunk value.
C12_QualifyingWindowAccepted ==
  total_max_length >= 1 /\ max_segment_length >= 1 /\ SomeWindowAboveFloor /\ Done =>
    /\ best_segments # <<>>
    /\ \A i \in 1..Len(chunk_values) :
         ~Exceeds([nom |-> chunk_values[i], err |-> 0], rounds[1][2])

\* A call returned a single chunk: with max_segment_length = 1 no longer window
\* was a candidate.
C12_Witness ==
  /\ Done /\ max_segment_length = 1 /\ total_max_length >= 1
  /\ Len(chunk_values) >= 2
  /\ Len(best_segments) = 1
  /\ best_segments[1][2] - best_segments[1][1] = 1

IsSingleChunkScenario ==
  /\ chunk_values = <<5>>
  /\ max_segment_length = 1 /\ total_max_length = 1 /\ min_segment_value = 0

\* C13: for values = [5.0], max_segment_length = 1, total_max_length = 1,
\* min_segment_value = 0 the call returns segments [(0,1)] with scores [5.0].
C13_SingleChunkScenario ==
  IsSingleChunkScenario /\ Done =>
    /\ best_segments = << <<0, 1>> >>
    /\ segment_scores = << [nom |-> 5, err |-> 0] >>

\* The single-chunk scenario returned.
C13_Witness == IsSingleChunkScenario /\ Done

\* C14: find_best_segments is deterministic and stateless: a call returns the
\* segment list and the score list that every earlier call with the same
\* arguments returned, whatever calls happened in between.
C14_SameInputSameOutput ==
  Done => \A i \in 1..Len(log) :
            log[i].in = args =>
              log[i].segments = best_segments /\ log[i].scores = segment_scores

\* A call returned a non-empty result after an equal call and a different call
\* in between.
C14_Witness ==
  /\ Done /\ Len(log) = 2
  /\ log[1].in = args /\ log[2].in # args
  /\ Len(best_segments) >= 2

\* C15: calculate_chunk_values returns a list with one entry per chunk; entry
\* i is the score of a search result whose metadata chunk_index is i, minus the
\* penalty, and 0 minus the penalty when no search result has chunk_index i.
C15_ValuePerChunk ==
  chunk_out.status # "none" =>
    /\ chunk_out.status = "returned"
    /\ Len(chunk_out.values) = chunk_out.num_chunks
    /\ \A i \in 0..(chunk_out.num_chunks - 1) :
         LET hits == {k \in 1..Len(chunk_out.results) :
                        chunk_out.results[k].metadata = [chunk_index |-> i]}
         IN IF hits # {}
            THEN \E k \in hits :
                   chunk_out.values[i + 1] = chunk_out.results[k].score - chunk_out.penalty
            ELSE chunk_out.values[i + 1] = 0 - chunk_out.penalty

\* The segments accepted before round k.
Earlier(k) == {rounds[j][1] : j \in 1..(k - 1)}

\* start lies in [s.start, s.end)
StartInside(start, seg) == seg[1] <= start /\ start < seg[2]

\* end lies in (s.start, s.end]
EndInside(end, seg) == seg[1] < end /\ end <= seg[2]

\* The candidates admissible in round k: length within the cap, neither endpoint
\* inside a segment accepted earlier.
Admissible(k) ==
  {w \in Windows : \A seg \in Earlier(k) :
                     ~StartInside(w[1], seg) /\ ~EndInside(w[2], seg)}

\* C16: in every round the accepted candidate has the maximum sum among the
\* candidates admissible in that round; the first accepted segment is a
\* maximum-sum window over all windows of length 1..max_segment_length.
C16_RoundMaximum ==
  \A k \in 1..Len(rounds) :
    /\ rounds[k][1] \in Admissible(k)
    /\ rounds[k][2] = SegmentValue(rounds[k][1][1], rounds[k][1][2])
    /\ \A w \in Admissible(k) : ~Exceeds(SegmentValue(w[1], w[2]), rounds[k][2])

\* A second round accepted a segment although a window that was no longer
\* admissible had a greater sum.
C16_Witness ==
  /\ Len(rounds) >= 2
  /\ \E w \in Windows \ Admissible(2) :
       Exceeds(SegmentValue(w[1], w[2]), rounds[2][2])

\* C17: neither endpoint of an accepted segment falls inside a range accepted
\* earlier: its start is not in [s.start, s.end) and its end is not in
\* (s.start, s.end].
C17_EndpointsOutsideEarlier ==
  \A k \in 1..Len(rounds) : \A seg \in Earlier(k) :
    /\ ~StartInside(rounds[k][1][1], seg)
    /\ ~EndInside(rounds[k][1][2], seg)

\* A later round accepted a segment that begins one chunk before an earlier one
\* and reaches beyond it.
C17_Witness ==
  \E k \in 1..Len(rounds) : \E seg \in Earlier(k) :
    rounds[k][1][1] = seg[1] - 1 /\ rounds[k][1][2] > seg[2]

\* C18: adjacency is allowed: for an accepted range s the end check does not
\* exclude a candidate that ends at s.start and the start check does not exclude
\* one that starts at s.end, and a round accepts such a candidate when it is the
\* best one left.
C18_AdjacencyAllowed ==
  /\ \A i \in 1..Len(best_segments) :
       /\ ~EndTaken(<<best_segments[i]>>, best_segments[i][1])
       /\ ~StartTaken(<<best_segments[i]>>, best_segments[i][2])
  /\ \A k \in 1..Len(rounds) : \A w \in Admissible(k) :
       (\E seg \in Earlier(k) : w[2] = seg[1] \/ w[1] = seg[2])
         => ~Exceeds(SegmentValue(w[1], w[2]), rounds[k][2])

\* The call returned two segments (a,b) and (b,c).
C18_Witness ==
  /\ Done
  /\ \E i, j \in 1..Len(best_segments) : best_segments[i][2] = best_segments[j][1]

\* C19: the returned score list is in discovery order: its k-th entry is the
\* score recorded in the k-th accepting round, and it has as many entries as
\* the returned segment list.
C19_ScoresInDiscoveryOrder ==
  Done =>
    /\ Len(segment_scores) = Len(rounds)
    /\ Len(segment_scores) = Len(best_segments)
    /\ \A k \in 1..Len(rounds) : segment_scores[k] = rounds[k][2]

\* The call returned segments found out of start order, with different scores.
C19_Witness ==
  /\ Done /\ Len(rounds) >= 2
  /\ rounds[1][1][1] > rounds[2][1][1]
  /\ rounds[1][2] # rounds[2][2]

\* The rounds accepted their segments in ascending start order.
FoundAscending ==
  \A j, k \in 1..Len(rounds) : j < k => rounds[j][1][1] < rounds[k][1][1]

\* C20: when the rounds accept in ascending start order, position i of the
\* returned segments and of the returned scores refers to the same round;
\* otherwise some position holds the segment of one round and the score of
\* another.
C20_PositionalMismatch ==
  Done =>
    IF FoundAscending
    THEN \A i \in 1..Len(rounds) :
           best_segments[i] = rounds[i][1] /\ segment_scores[i] = rounds[i][2]
    ELSE \E i \in 1..Len(rounds) :
           best_segments[i] # rounds[i][1] /\ segment_scores[i] = rounds[i][2]

\* The call returned a list in which some score is not the sum over the segment
\* at the same position.
C20_Witness ==
  /\ Done
  /\ \E i \in 1..Len(best_segments) :
       segment_scores[i] # SegmentValue(best_segments[i][1], best_segments[i][2])

\* C21: accepted ranges are append-only across rounds: a round leaves every
\* range accepted so far as it is and where it is, and adds one range at the end,
\* so the list after round k is a prefix of the list after round k + 1.
C21_AppendOnly ==
  [][pc = "while" /\ pc' = "while" =>
       /\ Len(best_segments') = Len(best_segments) + 1
       /\ \A i \in 1..Len(best_segments) : best_segments'[i] = best_segments[i]]_vars

\* Two rounds have accepted a range each and the loop is still running.
C21_Witness == pc = "while" /\ Len(rounds) = 2 /\ Len(best_segments) = 2

IsFourOnes == <<chunk_values, max_segment_length, total_max_length, min_segment_value>>
                = << <<1, 1, 1, 1>>, 3, 4, 1 >>

\* The sum of a list of scores.
RECURSIVE SumOfScores(_)
SumOfScores(scores) ==
  IF scores = <<>> THEN 0 ELSE Head(scores).nom + SumOfScores(Tail(scores))

\* The total score of a set of windows.
RECURSIVE SumOfWindows(_)
SumOfWindows(ws) ==
  IF ws = {} THEN 0
  ELSE LET w == CHOOSE x \in ws : TRUE
       IN SegmentValue(w[1], w[2]).nom + SumOfWindows(ws \ {w})

RECURSIVE LengthOfWindows(_)
LengthOfWindows(ws) ==
  IF ws = {} THEN 0
  ELSE LET w == CHOOSE x \in ws : TRUE
       IN (w[2] - w[1]) + LengthOfWindows(ws \ {w})

\* Sets of pairwise disjoint windows, each within the length cap and above the
\* floor, of total length within total_max_length.
Allocations ==
  {ws \in SUBSET Windows :
     /\ \A w \in ws : Exceeds(SegmentValue(w[1], w[2]), FloorValue)
     /\ \A a, b \in ws : a # b => Disjoint(a, b)
     /\ LengthOfWindows(ws) <= total_max_length}

\* C22: the greedy result is not always optimal: on four chunks of value 1 with
\* max_segment_length 3, total_max_length 4 and floor 1 the recorded scores add
\* up to less than the total score of another set of pairwise disjoint windows
\* that keep the length cap, the floor and total_max_length.
C22_GreedyNotOptimal ==
  IsFourOnes /\ Done =>
    \E ws \in Allocations : SumOfWindows(ws) > SumOfScores(segment_scores)

\* The call on the four chunks returned the one window (0, 3) with score 3.
C22_Witness ==
  /\ IsFourOnes /\ Done
  /\ best_segments = << <<0, 3>> >>
  /\ SumOfScores(segment_scores) = 3

\* The chunks at indices first..last (counted from 0) in index order, a single
\* space between neighbours.
RECURSIVE SpacedChunks(_, _)
SpacedChunks(first, last) ==
  IF first = last THEN chunks[first + 1]
  ELSE SpacedChunks(first, last - 1) \o <<" ">> \o chunks[last + 1]

\* C23: reconstruct_segments returns one entry per input segment, in the same
\* order; the entry's segment_range is (start, end) and its text is the chunks
\* start..end-1 joined in index order with a single space.
\* format_segments_for_context labels the entry at position i (from 0) as
\* SEGMENT i+1 covering chunks start to end-1, and puts its text after the label.
C23_SegmentsRendered ==
  /\ phase \in {"reconstructed", "formatted"} =>
       /\ Len(segments) = Len(ranges)
       /\ \A i \in 1..Len(ranges) :
            /\ segments[i].segment_range = ranges[i]
            /\ segments[i].text = SpacedChunks(ranges[i][1], ranges[i][2] - 1)
  /\ phase = "formatted" =>
       \A i \in 0..(Len(ranges) - 1) :
         /\ context[6 * i + 1] = [piece |-> "header", number |-> i + 1,
                                  first |-> ranges[i + 1][1],
                                  last |-> ranges[i + 1][2] - 1]
         /\ context[6 * i + 3] = [piece |-> "text", text |-> segments[i + 1].text]

\* Two segments were rendered, the first of several chunks and lying after the
\* second.
C23_Witness ==
  /\ phase = "formatted"
  /\ Len(ranges) = 2
  /\ ranges[1][2] - ranges[1][1] >= 2
  /\ ranges[1][1] > ranges[2][1]

\* The texts of a list one after the other.
RECURSIVE Concatenation(_)
Concatenation(texts) ==
  IF texts = <<>> THEN <<>> ELSE Head(texts) \o Concatenation(Tail(texts))

Chunked == phase \in {"chunked", "reconstructed", "formatted"}

\* C30: chunk_text with overlap = 0 and chunk_size >= 1 splits the text into
\* non-overlapping chunks: every chunk is non-empty, every chunk but possibly
\* the last has exactly chunk_size characters, and the chunks concatenated in
\* order give back the text.
C30_ChunksPartitionText ==
  Chunked /\ overlap = 0 /\ chunk_size >= 1 =>
    /\ \A k \in 1..Len(chunks) : chunks[k] # <<>>
    /\ \A k \in 1..(Len(chunks) - 1) : Len(chunks[k]) = chunk_size
    /\ Concatenation(chunks) = text

\* A text was split without overlap into several chunks, the last one short.
C30_Witness ==
  /\ phase = "chunked" /\ overlap = 0
  /\ Len(chunks) >= 2
  /\ Len(chunks[Len(chunks)]) < chunk_size

SharesChunk(a, b) == a[1] < b[2] /\ b[1] < a[2]

\* C24: whenever two accepted segments share a chunk index, the one accepted
\* later strictly contains the one accepted earlier on both sides; partial
\* overlap, a shared start or a shared end between two accepted segments never
\* occurs.
C24_OverlapIsStrictContainment ==
  \A k \in 1..Len(rounds) : \A j \in 1..(k - 1) :
    LET later == rounds[k][1]
        earlier == rounds[j][1]
    IN /\ later[1] # earlier[1]
       /\ later[2] # earlier[2]
       /\ SharesChunk(later, earlier) =>
            later[1] < earlier[1] /\ later[2] > earlier[2]

\* A later round accepted a segment that shares a chunk with an earlier one.
C24_Witness ==
  \E k \in 1..Len(rounds) : \E j \in 1..(k - 1) : SharesChunk(rounds[k][1], rounds[j][1])

\* C25: the recorded scores are non-increasing in discovery order: the score
\* accepted in round k + 1 is never greater than the score accepted in round k.
C25_ScoresNonIncreasing ==
  \A k \in 1..(Len(rounds) - 1) : ~Exceeds(rounds[k + 1][2], rounds[k][2])

\* Two rounds accepted segments, the second with a smaller score.
C25_Witness ==
  Len(rounds) >= 2 /\ Exceeds(rounds[1][2], rounds[2][2])

\* C26 as stated: before each accepting round the covered length is below
\* total_max_length, and the lengths of the returned segments add up to at most
\* total_max_length + max_segment_length - 1.
C26_OvershootBelowCap ==
  /\ [](Done => TotalLength(best_segments) <= total_max_length + max_segment_length - 1)
  /\ [][Len(rounds') = Len(rounds) + 1 =>
          TotalLength(best_segments) < total_max_length]_vars

\* C26, amended: before each accepting round the covered length is below
\* total_max_length, and the lengths of the returned segments add up to at most
\* max(0, total_max_length + max_segment_length - 1): a call that accepts
\* nothing returns length 0 whatever the two caps are.
C26_OvershootBelowCapOrZero ==
  /\ [](Done => TotalLength(best_segments)
                   <= Max(0, total_max_length + max_segment_length - 1))
  /\ [][Len(rounds') = Len(rounds) + 1 =>
          TotalLength(best_segments) < total_max_length]_vars

\* The returned segments are longer in total than total_max_length: the last
\* round started below the budget and went over it.
C26_Witness ==
  /\ Done /\ total_max_length >= 1
  /\ TotalLength(best_segments) > total_max_length
  /\ TotalLength(best_segments) = total_max_length + max_segment_length - 1

SameValue(a, b) == a.nom = b.nom /\ a.err = b.err

\* C27: ties are broken by scan order: among the admissible candidates of a
\* round that have the maximal sum, the accepted one has the smallest start and,
\* among those with that start, the smallest length.
C27_TiesByScanOrder ==
  \A k \in 1..Len(rounds) : \A w \in Admissible(k) :
    SameValue(SegmentValue(w[1], w[2]), rounds[k][2]) =>
      \/ rounds[k][1][1] < w[1]
      \/ rounds[k][1][1] = w[1] /\ rounds[k][1][2] <= w[2]

\* A round accepted a segment although a candidate with the same start and one
\* with a later start had the same sum.
C27_Witness ==
  \E k \in 1..Len(rounds) : \E w, x \in Admissible(k) :
    /\ SameValue(SegmentValue(w[1], w[2]), rounds[k][2])
    /\ SameValue(SegmentValue(x[1], x[2]), rounds[k][2])
    /\ w[1] = rounds[k][1][1] /\ w[2] > rounds[k][1][2]
    /\ x[1] > rounds[k][1][1]

\* C28: after any sequence of add_documents calls (with or without vectors and
\* metadata, with lists of equal or unequal length) the three lists of the store
\* have the same length and entry i of each comes from the same added item;
\* search leaves the three lists as they are.
C28_ListsAligned ==
  /\ [](/\ Len(documents) = Len(vectors)
        /\ Len(documents) = Len(metadata)
        /\ Len(documents) = Len(items)
        /\ \A i \in 1..Len(items) :
             <<documents[i], vectors[i], metadata[i]>> = items[i])
  /\ [][search_out' # search_out =>
          UNCHANGED <<documents, vectors, metadata>>]_vars

\* The store holds an entry added without a vector and one added with a vector
\* and metadata, some call got lists of unequal length, and a search has run.
C28_Witness ==
  /\ Len(documents) = 2
  /\ vectors[1] = NoVector /\ metadata[1] = NoMeta
  /\ vectors[2] # NoVector /\ metadata[2] # NoMeta
  /\ uneven
  /\ search_out.called

\* The entries of the store that have a vector.
WithVector == {i \in 1..Len(vectors) : vectors[i] # NoVector}

\* C29: search returns [] on an empty store; otherwise, for a count top_k >= 0,
\* it returns min(top_k, number of entries with a vector) results in order of
\* non-increasing score, each with the document and metadata stored at the
\* index of the vector that gave the score, no index used twice.
C29_SearchResults ==
  search_out.called =>
    LET results == search_out.results
    IN /\ documents = <<>> => results = <<>>
       /\ Len(results) = Min(search_out.top_k, Cardinality(WithVector))
       /\ \A k \in 1..(Len(results) - 1) : results[k].score >= results[k + 1].score
       /\ \E at \in [1..Len(results) -> WithVector] :
            /\ \A k, l \in 1..Len(results) : k # l => at[k] # at[l]
            /\ \A k \in 1..Len(results) :
                 /\ results[k].score = Similarity(search_out.query, vectors[at[k]])
                 /\ results[k].document = documents[at[k]]
                 /\ results[k].metadata = metadata[at[k]]

\* A search returned two results of different scores, the better one stored
\* later, and fewer results than were asked for.
C29_Witness ==
  /\ search_out.called
  /\ Len(search_out.results) = 2
  /\ search_out.top_k > 2
  /\ search_out.results[1].score > search_out.results[2].score
  /\ \E i, j \in WithVector :
       i < j /\ Similarity(search_out.query, vectors[j])
                 > Similarity(search_out.query, vectors[i])

====
